---- MODULE Spec2Model ----
(***************************************************************************)
(* A model of dataflow-join: one GenericJoin layer (GenericJoinExt::extend *)
(* of src/src/lib-fail.rs) as a pipeline of count / propose / intersect    *)
(* operators over exchanged records, the sorted-list intersection          *)
(* (gallop, intersect, raw_triangles) of src/examples/triangles-single.rs, *)
(* and the iterative PageRank dataflow of src/examples/pagerank-simple.rs. *)
(***************************************************************************)
EXTENDS Integers, Sequences, FiniteSets, TLC

VARIABLES
    slice,      \* gallop: the slice the caller holds (a suffix of the original)
    keys,       \* gallop: the keys searched for so far, in call order
    whole,      \* gallop: the slice the first call was given
    aaa,        \* intersect: first argument
    bbb,        \* intersect: second argument
    isect,      \* intersect: <<>> before the call, <<result, branch run>> after it
    graph,      \* raw_triangles: node -> ascending neighbour list
    tri,        \* raw_triangles: <<>> before the call, <<result>> after it
    exts,       \* extend: number of extenders in the list handed to extend
    cnt,        \* extender e's count(p), a u64 in two limbs
    rel,        \* extender e's values for prefix p (propose / intersect)
    key,        \* route: the routing key of prefix p
    input,      \* extend: the prefixes of the input stream
    depth,      \* extend: how many extend layers the caller chains
    rec,        \* extend: where each input prefix's record is, and what it carries
    outcome,    \* bounds-checked run: <<>> before the call, <<how it ended>> after it
    nodes,      \* pagerank: graph.nodes()
    procs,      \* pagerank: number of processes
    workers,    \* pagerank: workers per process, communicators.len()
    deg,        \* pagerank: every node of the graph links to the next deg nodes
    status,     \* pagerank: worker -> "run", "done", or the access that panicked
    src,        \* pagerank: worker -> its src vector
    dst,        \* pagerank: worker -> its dst vector
    acc,        \* pagerank: worker -> its acc vector
    prNote,     \* pagerank: worker -> times the PageRank operator asked to be notified at
    agNote,     \* pagerank: worker -> times the Aggregation operator asked to be notified at
    prIn,       \* pagerank: batches in flight to the PageRank operators
    agIn,       \* pagerank: batches in flight to the Aggregation operators
    prDone,     \* pagerank: worker -> the notifications its PageRank operator handled
    agDone,     \* pagerank: worker -> the notifications its Aggregation operator handled
    joined      \* pagerank: pagerank_multi has joined every worker thread

gallopVars == <<slice, keys, whole>>
isectVars == <<aaa, bbb, isect>>
triVars == <<graph, tri>>
joinVars == <<exts, cnt, rel, key, input, depth, rec>>
checkedVars == <<outcome>>
rankVars == <<nodes, procs, workers, deg, status, src, dst, acc, prNote, agNote, prIn, agIn,
              prDone, agDone, joined>>
vars == <<slice, keys, whole, aaa, bbb, isect, graph, tri, exts, cnt, rel, key, input, depth, rec,
          outcome, nodes, procs, workers, deg, status, src, dst, acc, prNote, agNote, prIn, agIn,
          prDone, agDone, joined>>

---------------------------------------------------------------------------
(* Bounds of the model. *)

\* gallop / intersect: elements are 0..MaxElem
MaxElem == 8
\* intersect: the first argument has at most MaxLenA elements
MaxLenA == 2
\* raw_triangles: nodes are 0..NumNodes-1
NumNodes == 4
\* raw_triangles: the graph has at most MaxEdges edges
MaxEdges == 4
\* extend: at most MaxExt extenders
MaxExt == 2
\* extend: extension values are 1..MaxVal
MaxVal == 3
\* extend: small counts are 0..MaxCount
MaxCount == 1
\* extend: large counts are 2^31 .. 2^31 + MaxOver
MaxOver == 2
\* extend: workers (peers) are 0..NumWorkers-1
NumWorkers == 2
\* extend: chained layers are 1..NumLayers
NumLayers == 2
\* extend: the pipeline specification feeds prefixes 1..MaxPrefix
MaxPrefix == 2
\* intersect on unordered lists: the first argument has at most MaxLenFirst elements
MaxLenFirst == 1
\* pagerank: at most MaxPeers workers over all processes
MaxPeers == 2
\* pagerank: the graph has 1..MaxRankNodes nodes
MaxRankNodes == 4
\* pagerank: every node links to at most MaxDegree nodes
MaxDegree == 2

---------------------------------------------------------------------------
(* Values of the program. *)

\* RootTimestamp::new(20), the limit handed to loop_variable
Limit == 20
\* Local(1), the summary handed to loop_variable
Summary == 1
\* RootTimestamp::new(0), the initial capability of the PageRank operator
First == 0

---------------------------------------------------------------------------
(* Ascending sequences. *)

Min(S) == CHOOSE x \in S : \A y \in S : x <= y

Max(S) == CHOOSE x \in S : \A y \in S : y <= x

RECURSIVE SetToSeq(_)
SetToSeq(S) ==
    IF S = {} THEN <<>> ELSE <<Min(S)>> \o SetToSeq(S \ {Min(S)})

Range(s) == {s[n] : n \in 1..Len(s)}

\* &slice[n..]
Drop(s, n) == SubSeq(s, n + 1, Len(s))

---------------------------------------------------------------------------
(* gallop, src/examples/triangles-single.rs:72-93 *)

\* while step < slice.len() && &slice[step] < value { slice = &slice[step..]; step = step << 1; }
RECURSIVE GallopGrow(_, _, _)
GallopGrow(s, step, value) ==
    IF step < Len(s) /\ s[step + 1] < value
    THEN GallopGrow(Drop(s, step), step * 2, value)
    ELSE <<s, step>>

\* a gallop without the binary refinement
GallopShrinkNone(s, step, value) == s

\* while step > 0 { if step < slice.len() && &slice[step] < value { slice = &slice[step..]; } step = step >> 1; }
RECURSIVE GallopShrink(_, _, _)
GallopShrink(s, step, value) ==
    IF step > 0
    THEN GallopShrink(IF step < Len(s) /\ s[step + 1] < value THEN Drop(s, step) ELSE s,
                      step \div 2, value)
    ELSE s

\* the last statement of the branch: slice = &slice[1..]
GallopAdvance(s) == Drop(s, 1)

\* a gallop that forgets the final advance
GallopNoAdvance(s, value) ==
    IF Len(s) > 0 /\ s[1] < value
    THEN LET grown == GallopGrow(s, 1, value)
         IN  GallopShrink(grown[1], grown[2] \div 2, value)
    ELSE s

gallop(s, value) ==
    IF Len(s) > 0 /\ s[1] < value
    THEN LET grown == GallopGrow(s, 1, value)
         IN  GallopAdvance(GallopShrink(grown[1], grown[2] \div 2, value))
    ELSE s

---------------------------------------------------------------------------
(* intersect, src/examples/triangles-single.rs:46-68 *)

\* for a in aaa { bbb = gallop(bbb, a); if bbb.len() > 0 && &bbb[0] == a { count += 1; } }
RECURSIVE GallopBranch(_, _, _)
GallopBranch(as, bs, count) ==
    IF as = <<>>
    THEN count
    ELSE LET rest == gallop(bs, Head(as))
         IN  GallopBranch(Tail(as), rest,
                          IF Len(rest) > 0 /\ rest[1] = Head(as) THEN count + 1 ELSE count)

\* a merge whose Equal arm forgets to count
RECURSIVE MergeNoCount(_, _, _)
MergeNoCount(as, bs, count) ==
    IF Len(as) > 0 /\ Len(bs) > 0
    THEN IF as[1] > bs[1] THEN MergeNoCount(as, Tail(bs), count)
         ELSE IF as[1] < bs[1] THEN MergeNoCount(Tail(as), bs, count)
         ELSE MergeNoCount(Tail(as), Tail(bs), count)
    ELSE count

\* while aaa.len() > 0 && bbb.len() > 0 { match aaa[0].cmp(&bbb[0]) { ... } }
RECURSIVE MergeBranch(_, _, _)
MergeBranch(as, bs, count) ==
    IF Len(as) > 0 /\ Len(bs) > 0
    THEN IF as[1] > bs[1] THEN MergeBranch(as, Tail(bs), count)
         ELSE IF as[1] < bs[1] THEN MergeBranch(Tail(as), bs, count)
         ELSE MergeBranch(Tail(as), Tail(bs), count + 1)
    ELSE count

\* a branch test over the rationals: a < b/4 as 4a < b
UseGallopExact(as, bs) == 4 * Len(as) < Len(bs)

\* if aaa.len() < bbb.len() / 4
UseGallop(as, bs) == Len(as) < Len(bs) \div 4

intersect(as, bs) ==
    IF UseGallop(as, bs) THEN GallopBranch(as, bs, 0) ELSE MergeBranch(as, bs, 0)

\* which arm of the if / else intersect runs
BranchTaken(as, bs) == IF UseGallop(as, bs) THEN "gallop" ELSE "merge"

---------------------------------------------------------------------------
(* raw_triangles, src/examples/triangles-single.rs:22-44 *)

\* an edge count that intersects a list with itself
EdgeCountSelf(as, bs) == intersect(as, as)

\* count += if aaa.len() < bbb.len() { intersect(aaa, bbb) } else { intersect(bbb, aaa) }
EdgeCount(as, bs) ==
    IF Len(as) < Len(bs) THEN intersect(as, bs) ELSE intersect(bs, as)

\* for &b in aaa { ... }
RECURSIVE EdgeLoop(_, _, _, _)
EdgeLoop(g, as, todo, count) ==
    IF todo = <<>>
    THEN count
    ELSE EdgeLoop(g, as, Tail(todo), count + EdgeCount(as, g[Head(todo)]))

\* for a in 0..graph.nodes() { let aaa = graph.edges(a); ... }
RECURSIVE NodeLoop(_, _, _)
NodeLoop(g, a, count) ==
    IF a >= NumNodes THEN count ELSE NodeLoop(g, a + 1, EdgeLoop(g, g[a], g[a], count))

raw_triangles(g) == NodeLoop(g, 0, 0)

---------------------------------------------------------------------------
(* gallop and intersect again, with the bounds check of every slice access  *)
(* and the number of iterations of every while loop made explicit,          *)
(* src/examples/triangles-single.rs:46-93                                   *)

\* slice[n] is an element of the slice (otherwise the access panics)
InRange(s, n) == n < Len(s)

\* &slice[n..] is a slice (otherwise the access panics)
CanDrop(s, n) == n <= Len(s)

\* how a run of gallop stands: the slice and step it holds, the element
\* reads it has made, and whether it is running, panicked or still looping
\* when the iterations allowed ran out
Ran(s, step, reads) == [s |-> s, step |-> step, st |-> "ok", reads |-> reads]

Panicked(s, step, reads) == [s |-> s, step |-> step, st |-> "panic", reads |-> reads]

Looping(s, step, reads) == [s |-> s, step |-> step, st |-> "looping", reads |-> reads]

\* a while loop over a slice of n elements is given n + 2 iterations
Fuel(s) == Len(s) + 2

\* a first loop that does not test step against the length
GrowGuardNone(s, step) == TRUE

\* while step < slice.len() && ...
GrowGuard(s, step) == step < Len(s)

\* while step < slice.len() && &slice[step] < value { slice = &slice[step..]; step = step << 1; }
RECURSIVE GallopGrowChecked(_, _, _, _, _)
GallopGrowChecked(s, step, value, reads, fuel) ==
    IF ~GrowGuard(s, step) THEN Ran(s, step, reads)
    ELSE IF ~InRange(s, step) THEN Panicked(s, step, reads)
    ELSE IF ~(s[step + 1] < value) THEN Ran(s, step, reads + 1)
    ELSE IF ~CanDrop(s, step) THEN Panicked(s, step, reads + 1)
    ELSE IF fuel = 0 THEN Looping(s, step, reads + 1)
    ELSE GallopGrowChecked(Drop(s, step), step * 2, value, reads + 1, fuel - 1)

\* while step > 0 { if step < slice.len() && &slice[step] < value { slice = &slice[step..]; } step = step >> 1; }
RECURSIVE GallopShrinkChecked(_, _, _, _, _)
GallopShrinkChecked(s, step, value, reads, fuel) ==
    IF ~(step > 0) THEN Ran(s, step, reads)
    ELSE IF fuel = 0 THEN Looping(s, step, reads)
    ELSE IF ~(step < Len(s))
         THEN GallopShrinkChecked(s, step \div 2, value, reads, fuel - 1)
    ELSE IF ~InRange(s, step) THEN Panicked(s, step, reads)
    ELSE IF ~(s[step + 1] < value)
         THEN GallopShrinkChecked(s, step \div 2, value, reads + 1, fuel - 1)
    ELSE IF ~CanDrop(s, step) THEN Panicked(s, step, reads + 1)
    ELSE GallopShrinkChecked(Drop(s, step), step \div 2, value, reads + 1, fuel - 1)

\* the body of gallop's if: both loops, then slice = &slice[1..]
GallopBodyChecked(s, value, reads) ==
    LET grown == GallopGrowChecked(s, 1, value, reads, Fuel(s))
        shrunk == GallopShrinkChecked(grown.s, grown.step \div 2, value, grown.reads, Fuel(s))
    IN  IF grown.st # "ok" THEN grown
        ELSE IF shrunk.st # "ok" THEN shrunk
        ELSE IF ~CanDrop(shrunk.s, 1) THEN Panicked(shrunk.s, 0, shrunk.reads)
        ELSE Ran(Drop(shrunk.s, 1), 0, shrunk.reads)

\* if slice.len() > 0 && &slice[0] < value { ... } return slice;
gallopChecked(s, value, reads) ==
    IF ~(Len(s) > 0) THEN Ran(s, 0, reads)
    ELSE IF ~InRange(s, 0) THEN Panicked(s, 0, reads)
    ELSE IF ~(s[1] < value) THEN Ran(s, 0, reads + 1)
    ELSE GallopBodyChecked(s, value, reads + 1)

\* how a run of intersect stands: the count so far, the element reads made
Counted(count, st, reads) == [count |-> count, st |-> st, reads |-> reads]

\* for a in aaa { bbb = gallop(bbb, a); if bbb.len() > 0 && &bbb[0] == a { count += 1; } }
RECURSIVE GallopBranchChecked(_, _, _, _)
GallopBranchChecked(as, bs, count, reads) ==
    IF as = <<>> THEN Counted(count, "ok", reads)
    ELSE LET g == gallopChecked(bs, Head(as), reads + 1)
         IN  IF g.st # "ok" THEN Counted(count, g.st, g.reads)
             ELSE IF ~(Len(g.s) > 0) THEN GallopBranchChecked(Tail(as), g.s, count, g.reads)
             ELSE IF ~InRange(g.s, 0) THEN Counted(count, "panic", g.reads)
             ELSE GallopBranchChecked(Tail(as), g.s,
                                      IF g.s[1] = Head(as) THEN count + 1 ELSE count,
                                      g.reads + 1)

\* while aaa.len() > 0 && bbb.len() > 0 { match aaa[0].cmp(&bbb[0]) { ... } }
RECURSIVE MergeBranchChecked(_, _, _, _, _)
MergeBranchChecked(as, bs, count, reads, fuel) ==
    IF ~(Len(as) > 0 /\ Len(bs) > 0) THEN Counted(count, "ok", reads)
    ELSE IF fuel = 0 THEN Counted(count, "looping", reads)
    ELSE IF ~InRange(as, 0) \/ ~InRange(bs, 0) THEN Counted(count, "panic", reads)
    ELSE IF as[1] > bs[1]
         THEN IF ~CanDrop(bs, 1) THEN Counted(count, "panic", reads + 2)
              ELSE MergeBranchChecked(as, Drop(bs, 1), count, reads + 2, fuel - 1)
    ELSE IF as[1] < bs[1]
         THEN IF ~CanDrop(as, 1) THEN Counted(count, "panic", reads + 2)
              ELSE MergeBranchChecked(Drop(as, 1), bs, count, reads + 2, fuel - 1)
    ELSE IF ~CanDrop(as, 1) \/ ~CanDrop(bs, 1) THEN Counted(count, "panic", reads + 2)
    ELSE MergeBranchChecked(Drop(as, 1), Drop(bs, 1), count + 1, reads + 2, fuel - 1)

intersectChecked(as, bs) ==
    IF UseGallop(as, bs)
    THEN GallopBranchChecked(as, bs, 0, 0)
    ELSE MergeBranchChecked(as, bs, 0, 0, Fuel(as \o bs))

---------------------------------------------------------------------------
(* Callers of the sorted-list functions. *)

Elems == 0..MaxElem

\* the ascending, duplicate-free sequences over Elems
AscSeqs == {SetToSeq(S) : S \in SUBSET Elems}

ShortAscSeqs == {s \in AscSeqs : Len(s) <= MaxLenA}

Nodes == 0..(NumNodes - 1)

RECURSIVE EdgeSets(_)
EdgeSets(n) ==
    IF n = 0
    THEN {{}}
    ELSE LET fewer == EdgeSets(n - 1)
         IN  fewer \cup {E \cup {e} : E \in fewer, e \in Nodes \X Nodes}

\* graph.edges(a): the ascending neighbour list of a
GraphOf(E) == [a \in Nodes |-> SetToSeq({b \in Nodes : <<a, b>> \in E})]

Graphs == {GraphOf(E) : E \in EdgeSets(MaxEdges)}

GallopIdle == slice = <<>> /\ keys = <<>> /\ whole = <<>>

IsectIdle == aaa = <<>> /\ bbb = <<>> /\ isect = <<>>

TriIdle == graph = <<>> /\ tri = <<>>

CheckedIdle == outcome = <<>>

RankIdle ==
    /\ nodes = 0 /\ procs = 0 /\ workers = 0 /\ deg = 0
    /\ status = <<>> /\ src = <<>> /\ dst = <<>> /\ acc = <<>>
    /\ prNote = <<>> /\ agNote = <<>> /\ prIn = {} /\ agIn = {}
    /\ prDone = <<>> /\ agDone = <<>> /\ joined = FALSE

JoinIdle ==
    exts = 0 /\ cnt = <<>> /\ rel = <<>> /\ key = <<>> /\ input = {} /\ depth = 0 /\ rec = <<>>

\* gallop called on an ascending slice
InitGallop ==
    /\ whole \in AscSeqs
    /\ slice = whole
    /\ keys = <<>>
    /\ IsectIdle /\ TriIdle /\ JoinIdle /\ CheckedIdle /\ RankIdle

\* bbb = gallop(bbb, a): the caller keeps the suffix and searches again
CallGallop(value) ==
    /\ Len(keys) < 2
    /\ slice' = gallop(slice, value)
    /\ keys' = Append(keys, value)
    /\ UNCHANGED <<whole, isectVars, triVars, joinVars, checkedVars, rankVars>>

NextGallop == \E value \in 0..(MaxElem + 1) : CallGallop(value)

SpecGallop == InitGallop /\ [][NextGallop]_vars

\* intersect called on two ascending lists
InitIntersect ==
    /\ aaa \in ShortAscSeqs
    /\ bbb \in AscSeqs
    /\ isect = <<>>
    /\ GallopIdle /\ TriIdle /\ JoinIdle /\ CheckedIdle /\ RankIdle

CallIntersect ==
    /\ isect = <<>>
    /\ isect' = <<intersect(aaa, bbb), BranchTaken(aaa, bbb)>>
    /\ UNCHANGED <<aaa, bbb, gallopVars, triVars, joinVars, checkedVars, rankVars>>

NextIntersect == CallIntersect

SpecIntersect == InitIntersect /\ [][NextIntersect]_vars

\* raw_triangles called on a graph with ascending neighbour lists
InitTriangles ==
    /\ graph \in Graphs
    /\ tri = <<>>
    /\ GallopIdle /\ IsectIdle /\ JoinIdle /\ CheckedIdle /\ RankIdle

CallTriangles ==
    /\ tri = <<>>
    /\ tri' = <<raw_triangles(graph)>>
    /\ UNCHANGED <<graph, gallopVars, isectVars, joinVars, checkedVars, rankVars>>

NextTriangles == CallTriangles

SpecTriangles == InitTriangles /\ [][NextTriangles]_vars

\* element values below, at and above a key of 1
AnyElems == {0, 1, 2}

\* the slices of at most n elements, in any order and with repetitions
AnySeqs(n) == UNION {[1..k -> AnyElems] : k \in 0..n}

\* gallop and intersect called on slices that need not be ascending
InitTotal ==
    /\ whole \in AnySeqs(MaxElem)
    /\ slice = whole
    /\ keys = <<>>
    /\ IsectIdle /\ TriIdle /\ JoinIdle /\ CheckedIdle /\ RankIdle

\* gallop(slice, &value)
CallGallopAny ==
    \E value \in AnyElems :
        /\ outcome = <<>>
        /\ outcome' = <<gallopChecked(whole, value, 0)>>
        /\ slice' = gallopChecked(whole, value, 0).s
        /\ keys' = <<value>>
        /\ UNCHANGED <<whole, isectVars, triVars, joinVars, rankVars>>

\* intersect(aaa, bbb) with bbb the slice held
CallIntersectAny ==
    \E as \in AnySeqs(MaxLenFirst) :
        /\ outcome = <<>>
        /\ outcome' = <<intersectChecked(as, whole)>>
        /\ aaa' = as
        /\ bbb' = whole
        /\ isect' = <<intersectChecked(as, whole).count, BranchTaken(as, whole)>>
        /\ UNCHANGED <<gallopVars, triVars, joinVars, rankVars>>

NextTotal == CallGallopAny \/ CallIntersectAny

SpecTotal == InitTotal /\ [][NextTotal]_vars

---------------------------------------------------------------------------
(* Claims about gallop, intersect and raw_triangles. *)

\* the smallest 0-based index i with s[i] >= value, Len(s) when there is none
FirstAtLeast(s, value) ==
    IF \E n \in 1..Len(s) : s[n] >= value
    THEN Min({n \in 1..Len(s) : s[n] >= value}) - 1
    ELSE Len(s)

CommonCount(as, bs) == Cardinality(Range(as) \cap Range(bs))

\* C5: on ascending duplicate-free lists the merge branch and the gallop
\* branch of intersect return the same count, the size of the intersection,
\* and so does intersect whichever branch the lengths select.
C5_BranchesAgree ==
    isect # <<>> =>
        /\ MergeBranch(aaa, bbb, 0) = CommonCount(aaa, bbb)
        /\ GallopBranch(aaa, bbb, 0) = CommonCount(aaa, bbb)
        /\ isect[1] = CommonCount(aaa, bbb)

\* C5 witness: intersect took the gallop branch with a non-empty first list
\* and found a common element; the merge branch was taken on other inputs.
C5_Witness ==
    /\ isect # <<>>
    /\ UseGallop(aaa, bbb)
    /\ Len(aaa) = 1
    /\ isect[1] = 1

\* C6: gallop on an ascending slice returns the suffix that starts at the
\* smallest index whose element is >= the key, the empty slice if none.
C6_GallopSuffix ==
    Len(keys) = 1 => slice = Drop(whole, FirstAtLeast(whole, keys[1]))

\* C6 witness: gallop skipped at least three elements and stopped inside the slice.
C6_Witness ==
    /\ Len(keys) = 1
    /\ slice # <<>>
    /\ Len(slice) + 3 <= Len(whole)

\* C7: gallop again with the same key changes nothing, and gallop with a key
\* k' >= k on the result for k gives the result for k' on the whole slice.
C7_GallopAgain ==
    (Len(keys) = 2 /\ keys[1] <= keys[2]) => slice = gallop(whole, keys[2])

\* C7 witness: two calls with increasing keys, each of which advanced the slice.
C7_Witness ==
    /\ Len(keys) = 2
    /\ keys[1] < keys[2]
    /\ slice # <<>>
    /\ Len(gallop(whole, keys[1])) < Len(whole)
    /\ Len(slice) + 2 <= Len(gallop(whole, keys[1]))

\* C14 as claimed: the gallop branch runs exactly when a < b/4.
C14_GallopBelowQuarter ==
    isect # <<>> => (isect[2] = "gallop" <=> 4 * Len(aaa) < Len(bbb))

\* C14 as amended: the division is the integer one; the gallop branch runs
\* exactly when a < floor(b/4), that is when 4(a + 1) <= b, and the merge
\* branch otherwise.
C14_GallopBelowFloorQuarter ==
    isect # <<>> =>
        /\ isect[2] \in {"gallop", "merge"}
        /\ isect[2] = "gallop" <=> 4 * (Len(aaa) + 1) <= Len(bbb)

\* C14 witness: a = 1 and b = 7, where 4a < b, ran the merge branch.
C14_Witness ==
    /\ isect # <<>>
    /\ Len(aaa) = 1
    /\ Len(bbb) = 7
    /\ isect[2] = "merge"

\* t is s with some leading elements removed
IsSuffix(t, s) == Len(t) <= Len(s) /\ t = Drop(s, Len(s) - Len(t))

\* C18: on every slice, ascending or not, gallop returns without an access
\* outside the slice within Len + 2 iterations of each loop, and what it
\* returns is a suffix of its input; both branches of intersect return
\* likewise, and with an empty A or B the result is 0 and no element is read.
C18_Total ==
    outcome # <<>> =>
        /\ outcome[1].st = "ok"
        /\ keys # <<>> =>
               /\ IsSuffix(slice, whole)
               /\ slice = gallop(whole, keys[1])
               /\ whole = <<>> => outcome[1].reads = 0
        /\ isect # <<>> =>
               /\ isect[1] = intersect(aaa, bbb)
               /\ (aaa = <<>> \/ bbb = <<>>) => isect[1] = 0 /\ outcome[1].reads = 0

\* C18 witness: gallop ran both loops on a slice of eight elements that is
\* not ascending and returned a non-empty proper suffix.
C18_Witness ==
    /\ outcome # <<>>
    /\ keys = <<1>>
    /\ Len(whole) = 8
    /\ \E n \in 1..(Len(whole) - 1) : whole[n] > whole[n + 1]
    /\ slice # <<>>
    /\ Len(slice) + 4 <= Len(whole)
    /\ outcome[1].reads >= 5

\* the ordered triples (a, b, c) with edges a->b, a->c and b->c
BruteForce(g) ==
    Cardinality({t \in Nodes \X Nodes \X Nodes :
                    /\ t[2] \in Range(g[t[1]])
                    /\ t[3] \in Range(g[t[1]])
                    /\ t[3] \in Range(g[t[2]])})

\* the graph with edges 0->1, 0->2, 1->2, 2->0
FourNodeGraph == GraphOf({<<0, 1>>, <<0, 2>>, <<1, 2>>, <<2, 0>>})

\* C8: raw_triangles returns the brute-force count of triples (a, b, c) with
\* edges a->b, a->c, b->c; on the four-node graph both counts are 1.
C8_TrianglesBruteForce ==
    tri # <<>> =>
        /\ tri[1] = BruteForce(graph)
        /\ (graph = FourNodeGraph => tri[1] = 1)

\* C8 witness: raw_triangles has run on the four-node graph.
C8_Witness ==
    /\ tri = <<1>>
    /\ graph = FourNodeGraph

---------------------------------------------------------------------------
(* The extenders handed to extend: PrefixExtender, src/src/lib-fail.rs:50-65 *)

Prefixes == 1..MaxPrefix

Vals == 1..MaxVal

Workers == 0..(NumWorkers - 1)

\* a u64 as two limbs <<hi, lo>>, its value hi * 2^16 + lo
U64(n) == <<n \div 2^16, n % 2^16>>

\* a > b on u64
Gt(a, b) == a[1] > b[1] \/ (a[1] = b[1] /\ a[2] > b[2])

\* 1 << 31, the count every prefix starts with
Sentinel == <<2^15, 0>>

\* the counts 2^31 + d
Over(d) == <<2^15, d>>

\* What one extender answers for one prefix, <<count, values>>: an exact
\* count of its values; a relation of 2^31 or more values, of which the
\* values of the model are part; a count that over-estimates an empty relation.
Profiles ==
    {<<U64(Cardinality(R)), R>> : R \in SUBSET Vals}
    \cup {<<Over(d), Vals>> : d \in 0..MaxOver}
    \cup {<<U64(n), {}>> : n \in 1..MaxCount}

Extenders == 0..(exts - 1)

\* PrefixExtender::count
ExtCount(e, p) == cnt[e][p]

\* PrefixExtender::propose
ExtPropose(e, p) == rel[e][p]

\* PrefixExtender::intersect: keeps the candidates the relation holds
ExtIntersect(e, p, candidates) == candidates \cap rel[e][p]

\* PrefixExtender::route: every extender routes a prefix to its home key
route(e, p) == key[p]

\* the worker an exchanged record is delivered to
Dest(k) == k % NumWorkers

---------------------------------------------------------------------------
(* StreamPrefixExtender for Rc<RefCell<PE>>, src/src/lib-fail.rs:78-134 *)

None == <<>>

\* a count that replaces the carried pair whatever it is
CountOneAlways(e, p, c, i) ==
    LET nc == ExtCount(e, p)
    IN  IF Gt(nc, U64(0)) THEN <<nc, e>> ELSE None

\* a count that keeps the earlier extender on a tie
CountOneFirstWins(e, p, c, i) ==
    LET nc == ExtCount(e, p)
    IN  IF ~Gt(c, nc) THEN <<c, i>>
        ELSE IF Gt(nc, U64(0)) THEN <<nc, e>> ELSE None

\* the closure of count's filter_map on (p, c, i), with ident = e
CountOne(e, p, c, i) ==
    LET nc == ExtCount(e, p)
    IN  IF Gt(nc, c) THEN <<c, i>>
        ELSE IF Gt(nc, U64(0)) THEN <<nc, e>> ELSE None

\* an exchange keyed on the carried index instead of the prefix
CountKeyIndex(e, p, r) == r.i

\* count's exchange: Exchange::new(move |&(ref x,_,_)| func(x))
CountKey(e, p, r) == route(e, p)

\* propose's exchange: Exchange::new(move |x| func(x))
ProposeKey(e, p, r) == route(e, p)

\* intersect's exchange: Exchange::new(move |&(ref x,_)| func(x))
IntersectKey(e, p, r) == route(e, p)

---------------------------------------------------------------------------
(* GenericJoinExt::extend, src/src/lib-fail.rs:150-176 *)

\* self.map(|p| (p, 1 << 31, 0)), queued at the first extender's count
Enter(r, layer) ==
    [r EXCEPT !.layer = layer, !.st = "count", !.k = 0, !.part = 0,
              !.c = Sentinel, !.i = 0, !.ext = {}]

Fresh ==
    Enter([layer |-> 1, st |-> "count", k |-> 0, part |-> 0, c |-> Sentinel, i |-> 0,
           ext |-> {}, trace |-> <<>>, emitted |-> <<>>], 1)

Logged(r, op, e, w) ==
    [r EXCEPT !.trace = Append(@, [layer |-> r.layer, op |-> op, e |-> e, w |-> w])]

\* the index a record is partitioned by: |&(_, _, i)| i
PartOf(c, i) == i

\* an intersect loop that only asks the extenders after the owner
OthersAfter(index) == SetToSeq({x \in Extenders : x > index})

\* the other extenders taken from the last declared to the first
OthersDescending(index) ==
    LET up == SetToSeq({x \in Extenders : x # index})
    IN  [n \in 1..Len(up) |-> up[Len(up) + 1 - n]]

\* (0..extenders.len()).filter(|&x| x != index)
Others(index) == SetToSeq({x \in Extenders : x # index})

\* spark.concatenate(results): the layer's output, input of the next layer
Emit(r) ==
    LET out == [r EXCEPT !.emitted = Append(@, r.ext)]
    IN  IF r.layer < depth THEN Enter(out, r.layer + 1) ELSE [out EXCEPT !.st = "out"]

\* the operator after position n of part index's intersect chain
Chain(r, index, n) ==
    IF n < Len(Others(index))
    THEN [r EXCEPT !.st = "intersect", !.k = Others(index)[n + 1]]
    ELSE Emit(r)

\* a layer whose counted records are handed on as its output
AfterCountSkip(r, e, c, i) == Emit([r EXCEPT !.c = c, !.i = i])

\* counts = extender.count(counts, index) for each extender, then the
\* partition by i and nominations = part.map(|(x, _, _)| x)
AfterCount(r, e, c, i) ==
    IF e + 1 < exts
    THEN [r EXCEPT !.c = c, !.i = i, !.k = e + 1]
    ELSE [r EXCEPT !.c = c, !.i = i, !.st = "propose", !.part = PartOf(c, i), !.k = PartOf(c, i)]

CountRecord(e, w, p, r) ==
    LET res == CountOne(e, p, r.c, r.i)
    IN  IF res = None
        THEN [Logged(r, "count", e, w) EXCEPT !.st = "drop"]
        ELSE AfterCount(Logged(r, "count", e, w), e, res[1], res[2])

\* the closure of propose's map: (p, extender.propose(&p))
ProposeRecord(index, w, p, r) ==
    Chain([Logged(r, "propose", index, w) EXCEPT !.ext = ExtPropose(index, p)], index, 0)

\* the position of extender other in part index's intersect chain
ChainPos(index, other) ==
    CHOOSE n \in 1..Len(Others(index)) : Others(index)[n] = other

\* the closure of intersect's filter_map
IntersectRecord(index, other, w, p, r) ==
    LET extensions == ExtIntersect(other, p, r.ext)
    IN  IF Cardinality(extensions) > 0
        THEN Chain([Logged(r, "intersect", other, w) EXCEPT !.ext = extensions],
                   index, ChainPos(index, other))
        ELSE [Logged(r, "intersect", other, w) EXCEPT !.st = "drop", !.ext = extensions]

\* the batches delivered to one operator instance: any records queued for it
Batches(queued) == SUBSET queued \ {{}}

\* what the join operators leave alone
JoinFrame ==
    UNCHANGED <<exts, cnt, rel, key, input, depth, gallopVars, isectVars, triVars, checkedVars, rankVars>>

\* extender e's Count operator on worker w pulls what was delivered to it
Count ==
    \E layer \in 1..depth, e \in Extenders, w \in Workers :
        \E batch \in Batches({p \in input :
                                /\ rec[p].layer = layer /\ rec[p].st = "count"
                                /\ rec[p].k = e
                                /\ Dest(CountKey(e, p, rec[p])) = w}) :
            /\ rec' = [p \in input |->
                         IF p \in batch THEN CountRecord(e, w, p, rec[p]) ELSE rec[p]]
            /\ JoinFrame

\* the Propose operator of part index (extender index's) on worker w
Propose ==
    \E layer \in 1..depth, index \in Extenders, w \in Workers :
        \E batch \in Batches({p \in input :
                                /\ rec[p].layer = layer /\ rec[p].st = "propose"
                                /\ rec[p].part = index
                                /\ Dest(ProposeKey(index, p, rec[p])) = w}) :
            /\ rec' = [p \in input |->
                         IF p \in batch THEN ProposeRecord(index, w, p, rec[p]) ELSE rec[p]]
            /\ JoinFrame

\* extender other's Intersect operator in part index's chain, on worker w
Intersect ==
    \E layer \in 1..depth, index \in Extenders, w \in Workers :
        \E other \in Extenders \ {index} :
            \E batch \in Batches({p \in input :
                                    /\ rec[p].layer = layer /\ rec[p].st = "intersect"
                                    /\ rec[p].part = index /\ rec[p].k = other
                                    /\ Dest(IntersectKey(other, p, rec[p])) = w}) :
                /\ rec' = [p \in input |->
                             IF p \in batch THEN IntersectRecord(index, other, w, p, rec[p])
                                            ELSE rec[p]]
                /\ JoinFrame

NextJoin == Count \/ Propose \/ Intersect

\* one extend layer over a single prefix, for every list of extenders
Init ==
    /\ exts \in 1..MaxExt
    /\ input = {1}
    /\ depth = 1
    /\ \E answers \in [Extenders -> [input -> Profiles]] :
        /\ cnt = [e \in Extenders |-> [p \in input |-> answers[e][p][1]]]
        /\ rel = [e \in Extenders |-> [p \in input |-> answers[e][p][2]]]
    /\ key \in [input -> Workers]
    /\ rec = [p \in input |-> Fresh]
    /\ GallopIdle /\ IsectIdle /\ TriIdle /\ CheckedIdle /\ RankIdle

Spec == Init /\ [][NextJoin]_vars

\* chained extend layers over several prefixes; every extender holds every
\* value for every prefix, so that each prefix passes every operator. The
\* prefixes are then interchangeable, and their homes are drawn in order.
InitPipe ==
    /\ exts = MaxExt
    /\ input = Prefixes
    /\ depth = NumLayers
    /\ cnt = [e \in Extenders |-> [p \in input |-> U64(MaxVal)]]
    /\ rel = [e \in Extenders |-> [p \in input |-> Vals]]
    /\ key \in {f \in [input -> Workers] : \A p, q \in input : p <= q => f[p] <= f[q]}
    /\ rec = [p \in input |-> Fresh]
    /\ GallopIdle /\ IsectIdle /\ TriIdle /\ CheckedIdle /\ RankIdle

SpecPipe == InitPipe /\ [][NextJoin]_vars

\* extend over one more extender than Init draws, each with an exact count
\* of the values it holds for the one input prefix
InitOrder ==
    /\ exts = MaxExt + 1
    /\ input = {1}
    /\ depth = 1
    /\ rel \in [Extenders -> [input -> SUBSET Vals]]
    /\ cnt = [e \in Extenders |-> [p \in input |-> U64(Cardinality(rel[e][p]))]]
    /\ key = [p \in input |-> 0]
    /\ rec = [p \in input |-> Fresh]
    /\ GallopIdle /\ IsectIdle /\ TriIdle /\ CheckedIdle /\ RankIdle

SpecOrder == InitOrder /\ [][NextJoin]_vars

---------------------------------------------------------------------------
(* The PageRank dataflow, src/examples/pagerank-simple.rs:103-205: on every *)
(* worker a PageRank operator and an Aggregation operator in a loop.  A     *)
(* value of src, dst or acc is kept as the set of contributions added to    *)
(* it: the empty set is 0.0, and a sum of ranks, all positive, is not.      *)

\* communicator.peers(): processes times workers per process
peers == procs * workers

\* communicator.index() of the workers
Peers == 0..(peers - 1)

\* graph.edges(a): node a links to the next deg nodes
GraphEdges(a) == SetToSeq({(a + j) % nodes : j \in 1..deg})

\* what travels a channel: records of one time from one worker to another
Batch(from, to, t, recs) == [from |-> from, to |-> to, t |-> t, recs |-> recs]

\* the key an Exchange pact computes is taken modulo the number of workers
Route(k) == k % peers

\* a value no contribution was added to
Zero == {}

\* a drain that leaves the elements in the vector
DrainedKeeps(v) == v

\* vec.drain_temp() consumed to the end leaves the vector empty
Drained(v) == <<>>

\* for _ in 0..n { vec.push(0.0); }
Refill(v, n) == v \o [k \in 1..n |-> Zero]

\* a loop variable that adds two to the time of what is fed back
FeedbackTwice(t) == t + 2

\* the loop variable adds Local(1) to the time of what is fed back
Feedback(t) == t + Summary

\* the loop variable feeds back only what does not exceed its limit
Admits(t) == t <= Limit

\* a notification that is delivered as soon as it is asked for
PrReadyEager(t) == TRUE

\* a notification of the PageRank operator for time t can be delivered: no
\* record of a time up to t is in its input or can still be produced
PrReady(t) ==
    /\ \A m \in prIn : m.t > t
    /\ \A m \in agIn : Feedback(m.t) > t
    /\ \A v \in Peers : \A s \in agNote[v] : Feedback(s) > t
    /\ \A v \in Peers : \A s \in prNote[v] : Feedback(s) > t

\* a notification of the Aggregation operator for time t can be delivered
AgReady(t) ==
    /\ \A m \in agIn : m.t > t
    /\ \A v \in Peers : \A s \in prNote[v] : s > t
    /\ \A m \in prIn : m.t > t
    /\ \A v \in Peers : \A s \in agNote[v] : Feedback(s) > t

\* iterator.next() of the PageRank operator on worker index
PrDue(index) == {t \in prNote[index] : PrReady(t)}

\* iterator.next() of the Aggregation operator on worker index
AgDue(index) == {t \in agNote[index] : AgReady(t)}

\* the graph nodes worker index ranks: index + peers * node for node in 0..src.len()
LocalNodes(index) == {index + peers * node : node \in 0..(Len(src[index]) - 1)}

\* for &b in edges { dst[b as usize] += value; } over all local nodes
Spread(index) ==
    [b \in 1..Len(dst[index]) |->
        dst[index][b] \cup {a \in LocalNodes(index) : (b - 1) \in Range(GraphEdges(a))}]

\* dst.drain_temp().enumerate().filter(|&(_,f)| f != 0.0).map(|(u,f)| (u as u32, f))
PrRecords(index) == {b - 1 : b \in {c \in 1..Len(dst[index]) : Spread(index)[c] # Zero}}

\* Exchange of the Aggregation operator:
\* (workers * (index / workers)) + (x.0 % workers)
AggTarget(index, node) == workers * (index \div workers) + (node % workers)

\* output.give_at(&iter, ...) of the PageRank operator, exchanged
PrSent(index, iter) ==
    {Batch(index, to, iter, {b \in PrRecords(index) : AggTarget(index, b) = to}) :
        to \in {AggTarget(index, b) : b \in PrRecords(index)}}

\* an access of the PageRank notification outside graph or dst
PrNotifyFault(index) ==
    IF \E a \in LocalNodes(index) : a >= nodes THEN "edges"
    ELSE IF \E a \in LocalNodes(index) : \E n \in 1..Len(GraphEdges(a)) :
                GraphEdges(a)[n] >= Len(dst[index]) THEN "dst"
    ELSE "run"

\* src[node as usize / peers] += rank outside src
PrInputFault(index, pulled) ==
    IF \E m \in pulled : \E r \in m.recs : r.id \div peers >= Len(src[index])
    THEN "src" ELSE "run"

\* src[node as usize / peers] += rank for every record of the batches pulled
SrcAdd(v, pulled) ==
    [n \in 1..Len(v) |->
        LET hits == {m \in pulled : \E r \in m.recs : r.id \div peers = n - 1}
        IN  [ids |-> v[n].ids \cup {r.id : r \in {x \in UNION {m.recs : m \in pulled} :
                                                   x.id \div peers = n - 1}},
             top |-> Max({v[n].top} \cup {m.t : m \in hits})]]

\* what the PageRank operator held when it handled the notification for
\* iter: the latest time of a contribution in src, whether a batch of a time
\* up to iter was still on its way to it, and dst as it left it
PrEntry(index, iter, after) ==
    [t |-> iter,
     top |-> Max({First} \cup {src[index][n].top : n \in 1..Len(src[index])}),
     missing |-> \E m \in prIn : m.to = index /\ m.t <= iter,
     len |-> Len(after),
     zeroed |-> \A n \in 1..Len(after) : after[n] = Zero]

\* a local index that is that of the first worker of the process
LocalIndexFirst(index) == 0

\* let local_index = index as usize % workers
local_index(index) == index % workers

\* acc[node as usize / workers] += rank outside acc
AgInputFault(index, pulled) ==
    IF \E m \in pulled : \E b \in m.recs : b \div workers >= Len(acc[index])
    THEN "acc" ELSE "run"

\* acc[node as usize / workers] += rank for every record of the batches pulled
AccAdd(v, pulled) ==
    [n \in 1..Len(v) |->
        v[n] \cup UNION {{[node |-> b, t |-> m.t] : b \in {c \in m.recs : c \div workers = n - 1}} :
                            m \in pulled}]

\* acc.drain_temp().enumerate().filter(|x| x.1 != 0.0)
\*    .map(|(u,f)| (((u * workers + local_index) as u32), f))
AgRecords(index, v) ==
    {[id |-> (u - 1) * workers + local_index(index),
      orig |-> {tag.node : tag \in v[u]},
      stamps |-> {tag.t : tag \in v[u]}] : u \in {n \in 1..Len(v) : v[n] # Zero}}

\* output.give_at(&item, ...) of the Aggregation operator, through
\* connect_loop(helper) and the Exchange of the PageRank operator (x.0 as u64)
AgSent(index, item, v) ==
    IF ~Admits(Feedback(item))
    THEN {}
    ELSE {Batch(index, to, Feedback(item), {r \in AgRecords(index, v) : Route(r.id) = to}) :
             to \in {Route(r.id) : r \in AgRecords(index, v)}}

\* what the Aggregation operator held when it handled the notification for item
AgEntry(index, item, v, after) ==
    [t |-> item,
     stamps |-> {tag.t : tag \in UNION {v[n] : n \in 1..Len(v)}},
     len |-> Len(after),
     zeroed |-> \A n \in 1..Len(after) : after[n] = Zero]

cfgVars == <<nodes, procs, workers, deg>>

RankFrame == UNCHANGED <<cfgVars, gallopVars, isectVars, triVars, joinVars, checkedVars>>

\* one invocation of the PageRank operator's logic on a worker: the
\* notification that is due, then the input that has arrived
PageRank ==
    \E index \in Peers : \E pulled \in SUBSET {m \in prIn : m.to = index} :
        LET due == PrDue(index)
            fault == IF due # {} /\ PrNotifyFault(index) # "run"
                     THEN PrNotifyFault(index)
                     ELSE PrInputFault(index, pulled)
        IN  /\ status[index] = "run"
            /\ due # {} \/ pulled # {}
            /\ IF fault # "run"
               THEN /\ status' = [status EXCEPT ![index] = fault]
                    /\ UNCHANGED <<src, dst, acc, prNote, agNote, prIn, agIn, prDone, agDone, joined>>
               ELSE /\ agIn' = agIn \cup (IF due = {} THEN {} ELSE PrSent(index, Min(due)))
                    /\ dst' = [dst EXCEPT ![index] =
                                  IF due = {} THEN @ ELSE Refill(Drained(Spread(index)), nodes)]
                    /\ src' = [src EXCEPT ![index] = SrcAdd(@, pulled)]
                    /\ prNote' = [prNote EXCEPT ![index] =
                                     (@ \ (IF due = {} THEN {} ELSE {Min(due)})) \cup {m.t : m \in pulled}]
                    /\ prIn' = prIn \ pulled
                    /\ prDone' = [prDone EXCEPT ![index] =
                                     IF due = {} THEN @
                                     ELSE Append(@, PrEntry(index, Min(due), Refill(Drained(Spread(index)), nodes)))]
                    /\ UNCHANGED <<status, acc, agNote, agDone, joined>>
            /\ RankFrame

\* one invocation of the Aggregation operator's logic on a worker: the
\* input that has arrived, then the notification that is due
Aggregation ==
    \E index \in Peers : \E pulled \in SUBSET {m \in agIn : m.to = index} :
        LET due == AgDue(index)
            held == AccAdd(acc[index], pulled)
            after == Refill(Drained(held), nodes \div workers)
            fault == IF AgInputFault(index, pulled) # "run" THEN "acc"
                     ELSE IF due # {} /\ Len(after) # nodes \div workers THEN "assert"
                     ELSE "run"
        IN  /\ status[index] = "run"
            /\ due # {} \/ pulled # {}
            /\ IF fault # "run"
               THEN /\ status' = [status EXCEPT ![index] = fault]
                    /\ UNCHANGED <<src, dst, acc, prNote, agNote, prIn, agIn, prDone, agDone, joined>>
               ELSE /\ agIn' = agIn \ pulled
                    /\ acc' = [acc EXCEPT ![index] = IF due = {} THEN held ELSE after]
                    /\ agNote' = [agNote EXCEPT ![index] =
                                     (@ \cup {m.t : m \in pulled}) \ (IF due = {} THEN {} ELSE {Min(due)})]
                    /\ prIn' = prIn \cup (IF due = {} THEN {} ELSE AgSent(index, Min(due), held))
                    /\ agDone' = [agDone EXCEPT ![index] =
                                     IF due = {} THEN @
                                     ELSE Append(@, AgEntry(index, Min(due), held, after))]
                    /\ UNCHANGED <<status, src, dst, prNote, prDone, joined>>
            /\ RankFrame

\* nothing is in flight and no notification is pending: root.step() returns false
Quiet ==
    /\ prIn = {}
    /\ agIn = {}
    /\ \A v \in Peers : prNote[v] = {} /\ agNote[v] = {}

\* while root.step() { } ends on a worker and its thread returns
Finish ==
    \E index \in Peers :
        /\ status[index] = "run"
        /\ Quiet
        /\ status' = [status EXCEPT ![index] = "done"]
        /\ UNCHANGED <<src, dst, acc, prNote, agNote, prIn, agIn, prDone, agDone, joined>>
        /\ RankFrame

\* for guard in guards { guard.join().unwrap(); } returns
Join ==
    /\ ~joined
    /\ \A v \in Peers : status[v] = "done"
    /\ joined' = TRUE
    /\ UNCHANGED <<status, src, dst, acc, prNote, agNote, prIn, agIn, prDone, agDone>>
    /\ RankFrame

NextRank == PageRank \/ Aggregation \/ Finish \/ Join

\* pagerank_multi on a graph of 1..MaxRankNodes nodes with at most MaxPeers workers
InitRank ==
    /\ procs \in 1..MaxPeers
    /\ workers \in 1..MaxPeers
    /\ procs * workers <= MaxPeers
    /\ nodes \in 1..MaxRankNodes
    /\ deg \in 0..MaxDegree
    /\ status = [v \in Peers |-> "run"]
    /\ src = [v \in Peers |-> [n \in 1..(nodes \div peers) |-> [ids |-> {}, top |-> First]]]
    /\ dst = [v \in Peers |-> [n \in 1..nodes |-> Zero]]
    /\ acc = [v \in Peers |-> [n \in 1..(nodes \div workers) |-> Zero]]
    /\ prNote = [v \in Peers |-> {First}]
    /\ agNote = [v \in Peers |-> {}]
    /\ prIn = {}
    /\ agIn = {}
    /\ prDone = [v \in Peers |-> <<>>]
    /\ agDone = [v \in Peers |-> <<>>]
    /\ joined = FALSE
    /\ GallopIdle /\ IsectIdle /\ TriIdle /\ JoinIdle /\ CheckedIdle

SpecRank == InitRank /\ [][NextRank]_vars

\* the same with workers that keep being scheduled and messages that keep
\* being delivered
SpecRankFair == SpecRank /\ WF_vars(NextRank)

---------------------------------------------------------------------------
(* Claims about extend. *)

\* the smallest count any extender of the list reports for p
MinCount(p) ==
    CHOOSE c \in {ExtCount(e, p) : e \in Extenders} :
        \A e \in Extenders : ~Gt(c, ExtCount(e, p))

\* the extenders that report the smallest count for p
Cheapest(p) == {e \in Extenders : ExtCount(e, p) = MinCount(p)}

\* the record has left the count stage of its layer with an owner
Owned(r) ==
    \/ r.st \in {"propose", "intersect", "out"}
    \/ r.st = "drop" /\ r.trace[Len(r.trace)].op = "intersect"

\* the extenders that proposed for the record in its current layer
Proposers(r) ==
    {r.trace[n].e : n \in {m \in 1..Len(r.trace) :
                              r.trace[m].op = "propose" /\ r.trace[m].layer = r.layer}}

\* C1 as claimed: the owner recorded by the count stage, the extender that
\* proposes, is the lowest index among the extenders with the minimum count.
C1_LowestCheapestOwns ==
    \A p \in input :
        Owned(rec[p]) => rec[p].i = Min(Cheapest(p)) /\ rec[p].part = rec[p].i

\* C1 as amended: the owner is the highest index among the extenders with the
\* minimum count when that minimum is at most 2^31, and index 0 when every
\* count exceeds 2^31; the owner is the part the record goes to and the only
\* extender that proposes for it. It is a function of the counts alone.
C1_LastCheapestOwns ==
    \A p \in input :
        Owned(rec[p]) =>
            /\ rec[p].i = IF Gt(MinCount(p), Sentinel) THEN 0 ELSE Max(Cheapest(p))
            /\ rec[p].part = rec[p].i
            /\ Proposers(rec[p]) \subseteq {rec[p].i}

\* C1 witness: two or more extenders tie on a minimum count of at most 2^31
\* and the one declared last has proposed.
C1_Witness ==
    \E p \in input :
        /\ Cardinality(Cheapest(p)) >= 2
        /\ ~Gt(MinCount(p), Sentinel)
        /\ Proposers(rec[p]) = {Max(Cheapest(p))}
        /\ Min(Cheapest(p)) # Max(Cheapest(p))

\* C2: after the count operators of all extenders, the carried count is the
\* minimum count over all extenders and the carried index is an extender
\* whose count is that minimum.
C2_CarriedIsMinimum ==
    \A p \in input :
        Owned(rec[p]) =>
            /\ rec[p].c = MinCount(p)
            /\ ExtCount(rec[p].i, p) = MinCount(p)

\* every extender's count is the number of values it proposes
Exact(p) == \A e \in Extenders : ExtCount(e, p) = U64(Cardinality(ExtPropose(e, p)))

\* the values every extender of the list proposes for p
Inter(p) == {v \in Vals : \A e \in Extenders : v \in ExtPropose(e, p)}

\* C3: with exact counts, extend emits for a prefix exactly the pair whose
\* candidates are the intersection of all extenders' proposals when that is
\* non-empty, and nothing otherwise, whichever extender owns the prefix.
C3_EmitsIntersection ==
    \A p \in input :
        Exact(p) =>
            /\ \A n \in 1..Len(rec[p].emitted) :
                   rec[p].emitted[n] = Inter(p) /\ Inter(p) # {}
            /\ rec[p].st = "out" => Len(rec[p].emitted) = depth
            /\ rec[p].st = "drop" => Inter(p) = {}

\* C3 witness: a pair was emitted whose candidates are fewer than the
\* owner proposed, after an intersect by another extender.
C3_Witness ==
    \E p \in input :
        /\ Exact(p)
        /\ rec[p].st = "out"
        /\ rec[p].emitted = <<Inter(p)>>
        /\ ExtPropose(rec[p].part, p) # Inter(p)
        /\ exts >= 2

\* C4: a prefix whose candidates are empty is dropped where that happens: no
\* record with an empty candidate set waits for an intersect operator, and
\* extend emits no pair with an empty candidate list.
C4_EmptyIsDropped ==
    \A p \in input :
        /\ ~(rec[p].st = "intersect" /\ rec[p].ext = {})
        /\ \A n \in 1..Len(rec[p].emitted) : rec[p].emitted[n] # {}

Inside(r) == r.st \in {"count", "propose", "intersect"}

\* C10 as claimed: a layer is a barrier; once an operator of a layer has
\* processed some prefix, no prefix is still inside an earlier layer.
C10_LayerBarrier ==
    \A p, q \in input :
        \A n \in 1..Len(rec[p].trace) :
            ~(Inside(rec[q]) /\ rec[q].layer < rec[p].trace[n].layer)

Rank(op) == CASE op = "count" -> 0 [] op = "propose" -> 1 [] op = "intersect" -> 2

\* C10 as amended: the order holds per prefix only. An operator of layer k+1
\* handles a prefix only after layer k counted it, its owner proposed for it
\* and layer k emitted its pair; a prefix never goes back to an earlier layer
\* or an earlier stage of its layer.
C10_PerPrefixOrder ==
    \A p \in input :
        \A n \in 1..Len(rec[p].trace) :
            /\ \A m \in 1..(n - 1) :
                   /\ rec[p].trace[m].layer <= rec[p].trace[n].layer
                   /\ rec[p].trace[m].layer = rec[p].trace[n].layer =>
                          Rank(rec[p].trace[m].op) <= Rank(rec[p].trace[n].op)
            /\ rec[p].trace[n].layer > 1 =>
                   /\ Len(rec[p].emitted) >= rec[p].trace[n].layer - 1
                   /\ \E m \in 1..(n - 1) :
                          /\ rec[p].trace[m].layer = rec[p].trace[n].layer - 1
                          /\ rec[p].trace[m].op = "propose"

\* C10 witness: one prefix has been counted in the second layer while
\* another has not yet been pulled by the first layer's first operator.
C10_Witness ==
    \E p, q \in input :
        /\ \E n \in 1..Len(rec[p].trace) : rec[p].trace[n].layer = 2
        /\ rec[q].layer = 1
        /\ rec[q].trace = <<>>

NotCount(t) == t.op # "count"

Applied(r) == SelectSeq(r.trace, NotCount)

\* C13: a prefix that leaves the count stage with owner i gets propose by
\* extender i once, then intersect by every other extender once in ascending
\* index order, ending at the first intersect that leaves no candidates;
\* nobody else proposes, i does not intersect, and a prefix without an owner
\* gets neither operation.
C13_OperationOrder ==
    \A p \in input :
        LET r == rec[p]
            ops == Applied(r)
            rest == SetToSeq(Extenders \ {r.i})
        IN  IF Owned(r)
            THEN /\ Len(ops) <= exts
                 /\ \A n \in 1..Len(ops) :
                        IF n = 1
                        THEN ops[n].op = "propose" /\ ops[n].e = r.i
                        ELSE ops[n].op = "intersect" /\ ops[n].e = rest[n - 1]
                 /\ r.st = "out" => Len(ops) = exts
                 /\ r.st = "intersect" => ops # <<>> /\ r.k = rest[Len(ops)]
                 /\ r.st = "drop" => r.ext = {}
                 /\ (Len(ops) >= 2 /\ r.st \in {"intersect", "out"}) => r.ext # {}
            ELSE ops = <<>>

\* C13 witness: with three extenders the middle one proposed, extender 0
\* intersected and left candidates, then extender 2 intersected.
C13_Witness ==
    \E p \in input :
        /\ exts = 3
        /\ Len(Applied(rec[p])) = 3
        /\ Applied(rec[p])[1].e = 1
        /\ Applied(rec[p])[2].e = 0
        /\ Applied(rec[p])[3].e = 2

---------------------------------------------------------------------------
(* Claims about the PageRank dataflow. *)

\* C11: every record travels with an iteration counter; what the Aggregation
\* operator emits for time t reaches the PageRank operator with t + 1, the
\* first iteration being 0; no batch of a time above 20 is in flight to the
\* PageRank operator, and the iterations a worker computes have strictly
\* increasing times in 0..20, so they are at most 21.
C11_IterationCounter ==
    /\ \A m \in agIn : m.t \in 0..Limit
    /\ \A m \in prIn :
           /\ m.t \in 1..Limit
           /\ \A r \in m.recs : r.stamps = {m.t - 1}
    /\ \A v \in Peers :
           /\ prNote[v] \subseteq 0..Limit
           /\ Len(prDone[v]) <= Limit + 1
           /\ \A n \in 1..Len(prDone[v]) :
                  /\ prDone[v][n].t \in 0..Limit
                  /\ n = 1 => prDone[v][n].t = 0
                  /\ n > 1 => prDone[v][n].t > prDone[v][n - 1].t

\* C11 witness: a worker has computed 21 iterations, the last one for time
\* 20, from contributions that went round the loop.
C11_Witness ==
    \E v \in Peers :
        /\ Len(prDone[v]) = 21
        /\ prDone[v][21].t = 20
        /\ prDone[v][21].top = 20

\* C12: with workers that keep being scheduled and messages that keep being
\* delivered, whatever the number of workers, every worker's root.step() loop
\* ends and pagerank_multi joins every thread.
C12_RunsToCompletion == <>joined

\* C15: when a worker's PageRank operator computes for time t, src holds no
\* contribution of a later time and no batch of a time up to t is still on
\* its way to that worker; none arrives afterwards either, and while a
\* notification for t is pending src holds nothing later than t.
C15_IterationsIsolated ==
    /\ \A v \in Peers : \A n \in 1..Len(prDone[v]) :
           /\ prDone[v][n].top <= prDone[v][n].t
           /\ ~prDone[v][n].missing
    /\ \A m \in prIn : \A n \in 1..Len(prDone[m.to]) : prDone[m.to][n].t < m.t
    /\ \A v \in Peers : \A t \in prNote[v] : \A n \in 1..Len(src[v]) : src[v][n].top <= t

\* C15 witness: with two workers, one has computed iteration 2 from
\* contributions of time 2 while the other has not yet computed it.
C15_Witness ==
    \E v, u \in Peers :
        /\ v # u
        /\ Len(prDone[v]) = 3
        /\ prDone[v][3].t = 2
        /\ prDone[v][3].top = 2
        /\ Len(prDone[u]) = 2
        /\ 2 \in prNote[u]

\* C16: every notification the Aggregation operator handled left acc with
\* nodes / workers elements, all 0, so its assert never fails, and every
\* notification the PageRank operator handled left dst with nodes elements,
\* all 0; the sums emitted for a time hold contributions of that time only,
\* and what acc holds is later than every notification already handled.
C16_DrainedAndRefilled ==
    \A v \in Peers :
        /\ status[v] # "assert"
        /\ Len(acc[v]) = nodes \div workers
        /\ Len(dst[v]) = nodes
        /\ \A n \in 1..Len(dst[v]) : dst[v][n] = Zero
        /\ \A n \in 1..Len(prDone[v]) : prDone[v][n].len = nodes /\ prDone[v][n].zeroed
        /\ \A n \in 1..Len(agDone[v]) :
               /\ agDone[v][n].len = nodes \div workers
               /\ agDone[v][n].zeroed
               /\ agDone[v][n].stamps \subseteq {agDone[v][n].t}
               /\ \A k \in 1..Len(acc[v]) : \A tag \in acc[v][k] : tag.t > agDone[v][n].t

\* C16 witness: an Aggregation operator with two accumulators has handled
\* the notifications for times 0 and 1, each with contributions to sum, and
\* holds contributions of time 2.
C16_Witness ==
    \E v \in Peers :
        /\ nodes \div workers = 2
        /\ Len(agDone[v]) = 2
        /\ agDone[v][1].stamps = {0}
        /\ agDone[v][2].stamps = {1}
        /\ \E k \in 1..Len(acc[v]) : acc[v][k] # Zero
        /\ Len(prDone[v]) = 3

\* C19: no access of src, acc, dst or the graph is out of bounds, whatever the
\* node count and the numbers of workers: no worker panics.
C19_InBounds == \A v \in Peers : status[v] \in {"run", "done"}

\* C20: a record (node, rank) a PageRank operator emits goes to the worker of
\* the same process whose local index is node % workers, is summed in
\* acc[node / workers] there and leaves with the id node again; the loop then
\* delivers it to worker node % peers, where the slot node / peers of src is
\* the one of graph node index + peers * (node / peers) = node.
C20_NodeRoundTrip ==
    /\ \A m \in agIn :
           /\ m.to \div workers = m.from \div workers
           /\ \A b \in m.recs : m.to % workers = b % workers
    /\ \A v \in Peers : \A n \in 1..Len(acc[v]) : \A tag \in acc[v][n] :
           /\ tag.node \div workers = n - 1
           /\ (n - 1) * workers + (v % workers) = tag.node
    /\ \A m \in prIn : \A r \in m.recs :
           /\ r.orig = {r.id}
           /\ m.to = r.id % peers
    /\ \A v \in Peers : \A n \in 1..Len(src[v]) :
           src[v][n].ids \subseteq {v + peers * (n - 1)}

\* C20 witness: with two workers in one process, a record for node 3 went
\* through acc[1] of worker 1 and the loop into src[1] of worker 1, and one
\* for node 2 into src[1] of worker 0.
C20_Witness ==
    /\ procs = 1
    /\ workers = 2
    /\ Len(src[1]) = 2
    /\ src[1][2].ids = {3}
    /\ src[0][2].ids = {2}

====
